---------------------------- MODULE Spec2Model ----------------------------
(* A model of macpine's `tag` and `launch-cloud` commands                  *)
(* (src/cmd/tag.go, src/cmd/launch-cloud.go).                              *)
(*                                                                         *)
(* Go strings on which the code works character by character (tags, disk   *)
(* sizes, aliases, integers to parse) are sequences of one-character       *)
(* strings; Code gives the byte value Go compares.  Strings that are only  *)
(* compared for equality (architecture, mount path) are plain strings.     *)
EXTENDS Integers, Sequences, FiniteSets, TLC

VARIABLES
    \* ---- tag command (src/cmd/tag.go) ----
    file,       \* Tags of <home>/.macpine/<vmName>/config.yaml
    tpc,        \* position of each `alpine tag` invocation
    tags,       \* machineConfig.Tags of each invocation
    targs,      \* args[1:] of each invocation
    tremove,    \* the --remove flag of each invocation
    tloaded,    \* the Tags each invocation unmarshalled (before its loop)
    \* ---- disk-size validation on its own ----
    diskIn,     \* machineDisk handed to CorrectArgumentsCloud
    diskOut,    \* what the disk checks of CorrectArgumentsCloud answered
    \* ---- launch-cloud command (src/cmd/launch-cloud.go) ----
    lpc,                \* position of the launch-cloud invocation
    machineArchCloud,   \* --arch
    machineNameCloud,   \* --name
    machineMountCloud,  \* --mount
    machineDiskCloud,   \* --disk
    machineArch,        \* package variables of the sibling `launch` command,
    machineName,        \*   which launch-cloud.go reads and writes
    machineMount,       \*   (lines 107, 130-151)
    GOARCH,             \* runtime.GOARCH
    machineConfig,      \* the qemu.MachineConfig built, with machineType
    launchErr,          \* err of host.Launch
    name,               \* the relocated log's file name (line 194)
    pidLookup,          \* what GetInstancePID returned (line 199)
    effects,            \* what the command did to the outside, in order
    exitCode,           \* the exit status, -1 while running
    hostVMs,            \* the instances host.ListVMNames reports
    dirs,               \* instance directories that exist, by alias
    logIn,              \* instance directories holding an alpine.log
    running,            \* aliases whose instance process runs
    errDir,             \* whether <home>/.macpine/cache/.error-logs exists
    errorLogs,          \* the files in it
    atReturn            \* dirs and running when host.Launch returned

varsTag  == <<file, tpc, tags, targs, tremove, tloaded>>
varsDisk == <<diskIn, diskOut>>
varsFlags == <<machineArchCloud, machineNameCloud, machineMountCloud,
               machineDiskCloud, GOARCH>>
varsCmd == <<lpc, machineArch, machineName, machineMount, machineConfig,
             launchErr, name, pidLookup, effects, exitCode>>
varsHost == <<hostVMs, dirs, logIn, running, errDir, errorLogs, atReturn>>
varsLaunch == <<varsFlags, varsCmd, varsHost>>
vars == <<varsTag, varsDisk, varsLaunch>>

-----------------------------------------------------------------------------
(* Bounds *)
MaxArgs == 2        \* labels on one `tag` command line
MaxDiskLen == 3     \* characters of a --disk value

-----------------------------------------------------------------------------
(* Go strings *)

\* The byte value of a character (Go compares strings and runes by it).
Code(c) ==
    CASE c = " " -> 32 [] c = "-" -> 45
      [] c = "0" -> 48 [] c = "1" -> 49 [] c = "2" -> 50 [] c = "5" -> 53
      [] c = "6" -> 54 [] c = "8" -> 56 [] c = "9" -> 57
      [] c = "A" -> 65 [] c = "G" -> 71 [] c = "K" -> 75 [] c = "M" -> 77 [] c = "T" -> 84
      [] c = "Z" -> 90
      [] c = "_" -> 95
      [] c = "a" -> 97 [] c = "b" -> 98 [] c = "d" -> 100 [] c = "e" -> 101
      [] c = "g" -> 103 [] c = "m" -> 109 [] c = "v" -> 118 [] c = "w" -> 119

\* s < t on Go strings: bytewise lexicographic order.
RECURSIVE GoLess(_, _)
GoLess(s, t) ==
    IF t = <<>> THEN FALSE
    ELSE IF s = <<>> THEN TRUE
    ELSE IF Code(Head(s)) # Code(Head(t)) THEN Code(Head(s)) < Code(Head(t))
    ELSE GoLess(Tail(s), Tail(t))

Range(s) == {s[i] : i \in 1..Len(s)}

SeqsUpTo(S, n) == UNION {[1..k -> S] : k \in 0..n}

-----------------------------------------------------------------------------
(* tag.go *)

Editors == {"e1", "e2"}

Label_d   == <<"d">>
Label_db  == <<"d", "b">>
Label_web == <<"w", "e", "b">>
Labels == {Label_d, Label_db, Label_web}

ArgLists == SeqsUpTo(Labels, MaxArgs)

\* The scan of find from 0-based index i on: the first index whose element
\* equals t (found) or is greater than t (not found), else len(s).
RECURSIVE findFrom(_, _, _)
findFrom(s, t, i) ==
    IF i >= Len(s) THEN [i |-> Len(s), found |-> FALSE]
    ELSE IF s[i + 1] = t THEN [i |-> i, found |-> TRUE]
    ELSE IF GoLess(t, s[i + 1]) THEN [i |-> i, found |-> FALSE]
    ELSE findFrom(s, t, i + 1)

\* A scan that compares the wrong way round (e < t for e > t).
findWrongWay(s, t) ==
    LET stop == {i \in 1..Len(s) : s[i] = t \/ GoLess(s[i], t)}
        m == CHOOSE i \in stop : \A j \in stop : i <= j
    IN  IF stop = {} THEN [i |-> Len(s), found |-> FALSE]
        ELSE [i |-> m - 1, found |-> s[m] = t]

find(s, t) == findFrom(s, t, 0)

\* An insertion one place too far.
InsertAtOffByOne(s, i, t) ==
    IF i < Len(s)
    THEN SubSeq(s, 1, i + 1) \o <<t>> \o SubSeq(s, i + 2, Len(s))
    ELSE s \o <<t>>

\* append(s[:i], append([]string{t}, s[i:]...)...)
InsertAt(s, i, t) == SubSeq(s, 1, i) \o <<t>> \o SubSeq(s, i + 1, Len(s))

\* A removal that drops the element after the located one as well.
DeleteAtTwo(s, i) == SubSeq(s, 1, i) \o SubSeq(s, i + 3, Len(s))

\* append(s[:i], s[i+1:]...)
DeleteAt(s, i) == SubSeq(s, 1, i) \o SubSeq(s, i + 2, Len(s))

\* One iteration of the loop of macpineTag.
EditOne(s, t, rm) ==
    LET r == find(s, t)
    IN  IF rm /\ r.found THEN DeleteAt(s, r.i)
        ELSE IF ~rm /\ ~r.found THEN InsertAt(s, r.i, t)
        ELSE s

\* The loop of macpineTag over args[1:].
RECURSIVE EditTags(_, _, _)
EditTags(s, ts, rm) ==
    IF ts = <<>> THEN s ELSE EditTags(EditOne(s, Head(ts), rm), Tail(ts), rm)

\* Strictly ascending in Go's string order (so without duplicates).
StrictlyAscending(s) == \A i \in 1..(Len(s) - 1) : GoLess(s[i], s[i + 1])

NoDuplicates(s) == \A i, j \in 1..Len(s) : i # j => s[i] # s[j]

\* The tag sequences a config file can hold: sorted, duplicate-free.
SortedTagSets == {s \in SeqsUpTo(Labels, Cardinality(Labels)) : StrictlyAscending(s)}

\* ReadFile + Unmarshal + the loop (lines 47-65): the invocation has the
\* edited Tags in memory and has not written them yet.
Load(e, a, rm) ==
    /\ tpc[e] = "idle"
    /\ tloaded' = [tloaded EXCEPT ![e] = file]
    /\ targs' = [targs EXCEPT ![e] = a]
    /\ tremove' = [tremove EXCEPT ![e] = rm]
    /\ tags' = [tags EXCEPT ![e] = EditTags(file, a, rm)]
    /\ tpc' = [tpc EXCEPT ![e] = "edited"]
    /\ UNCHANGED <<file, varsDisk, varsLaunch>>

\* Marshal + WriteFile + Println (lines 67-76).  The file is replaced in one
\* step: a write torn by another writer is outside this model.
Save(e) ==
    /\ tpc[e] = "edited"
    /\ file' = tags[e]
    /\ tpc' = [tpc EXCEPT ![e] = "done"]
    /\ UNCHANGED <<tags, targs, tremove, tloaded, varsDisk, varsLaunch>>

\* One whole run of macpineTag with nothing else touching the file.
macpineTag(e, a, rm) ==
    /\ tpc[e] \in {"idle", "done"}
    /\ tloaded' = [tloaded EXCEPT ![e] = file]
    /\ targs' = [targs EXCEPT ![e] = a]
    /\ tremove' = [tremove EXCEPT ![e] = rm]
    /\ tags' = [tags EXCEPT ![e] = EditTags(file, a, rm)]
    /\ file' = EditTags(file, a, rm)
    /\ tpc' = [tpc EXCEPT ![e] = "done"]
    /\ UNCHANGED <<varsDisk, varsLaunch>>

-----------------------------------------------------------------------------
(* launch-cloud.go: CorrectArgumentsCloud *)

DigitVal(c) == Code(c) - Code("0")

\* case r >= '0' && r <= '9', read as a range that leaves '0' out.
IsDigitFromOne(r) == Code(r) >= Code("1") /\ Code(r) <= Code("9")

\* case r >= '0' && r <= '9'
IsDigit(r) == Code(r) >= Code("0") /\ Code(r) <= Code("9")

\* case r >= 'A' && r <= 'Z', read as a range that takes lower case in.
IsUpperOrLower(r) == Code(r) >= Code("A") /\ Code(r) <= Code("w")

\* case r >= 'A' && r <= 'Z'
IsUpper(r) == Code(r) >= Code("A") /\ Code(r) <= Code("Z")

\* The value of a string of decimal digits, most significant first.
RECURSIVE DigitsValue(_, _)
DigitsValue(s, acc) ==
    IF s = <<>> THEN acc ELSE DigitsValue(Tail(s), acc * 10 + DigitVal(Head(s)))

\* strconv.Atoi: an optional sign, then one or more decimal digits.  (The
\* inputs here are far too short to leave the range of int.)
Atoi(s) ==
    LET signed == s # <<>> /\ Head(s) \in {"+", "-"}
        body == IF signed THEN Tail(s) ELSE s
    IN  IF body = <<>> \/ \E i \in 1..Len(body) : ~IsDigit(body[i])
        THEN [ok |-> FALSE, val |-> 0]
        ELSE [ok |-> TRUE,
              val |-> IF signed /\ Head(s) = "-" THEN 0 - DigitsValue(body, 0)
                      ELSE DigitsValue(body, 0)]

\* The loop over the runes of machineDisk (lines 78-86): upper-case letters
\* are appended to l, digits to n, everything else is dropped.
RECURSIVE Classify(_, _, _)
Classify(d, l, n) ==
    IF d = <<>> THEN [l |-> l, n |-> n]
    ELSE LET r == Head(d)
         IN  IF IsUpper(r) THEN Classify(Tail(d), Append(l, r), n)
             ELSE IF IsDigit(r) THEN Classify(Tail(d), l, Append(n, r))
             ELSE Classify(Tail(d), l, n)

DiskSuffixes == {<<>>, <<"K">>, <<"M">>, <<"G">>}

\* The disk checks of CorrectArgumentsCloud (lines 78-95), with the
\* magnitude and the suffix they worked on.
DiskCheck(machineDisk) ==
    LET c == Classify(machineDisk, <<>>, <<>>)
        a == Atoi(c.n)
    IN  [err |-> IF ~a.ok \/ a.val < 0
                 THEN "disk size (-d) must be a positive integer optionally followed by K, M, or G"
                 ELSE IF c.l \notin DiskSuffixes
                 THEN "disk size suffix must be K, M, or G"
                 ELSE "nil",
         int |-> a.val,
         l |-> c.l]

\* os.Stat of a mount path.
HostDirs == {"/data"}
HostFiles == {"/etc/hosts"}

\* utils.ParsePort: the collaborator's parser of the --port list.
ParsePortErr(machinePort) ==
    IF machinePort \in {"", "8080"} THEN "nil" ELSE "invalid port"

\* CorrectArgumentsCloud (lines 55-116): the first failing check's error, or
\* "nil".  The mount check reads the package variable machineMount.
CorrectArgumentsCloud(imageVersion, archArg, machineCPU, machineMemory, machineDisk, sshPort, machinePort) ==
    LET cpu == Atoi(machineCPU)
        mem == Atoi(machineMemory)
        ssh == Atoi(sshPort)
    IN  IF archArg # "" /\ archArg # "aarch64" /\ archArg # "x86_64"
        THEN "unsupported guest architecture. use x86_64 or aarch64"
        ELSE IF ~cpu.ok \/ cpu.val < 0
        THEN "number of cpus (-c) must be a positive integer"
        ELSE IF ~mem.ok \/ mem.val < 256
        THEN "memory (-m) must be a positive integer greater than 256"
        ELSE IF DiskCheck(machineDisk).err # "nil"
        THEN DiskCheck(machineDisk).err
        ELSE IF ~ssh.ok \/ ssh.val < 0
        THEN "ssh port (-s) must be a positive integer"
        ELSE IF ParsePortErr(machinePort) # "nil"
        THEN ParsePortErr(machinePort)
        ELSE IF machineMount # "" /\ machineMount \notin (HostDirs \cup HostFiles)
        THEN "mount target does not exist"
        ELSE IF machineMount # "" /\ machineMount \notin HostDirs
        THEN "mount target is not a directory"
        ELSE "nil"

\* Disk sizes to validate: every string of at most MaxDiskLen of these.
DiskAlphabet == {"0", "5", "G", "K", "M", "T", "-", "g"}
DiskInputs == SeqsUpTo(DiskAlphabet, MaxDiskLen)

ValidateDisk ==
    /\ diskOut.err = "none"
    /\ diskOut' = DiskCheck(diskIn)
    /\ UNCHANGED <<diskIn, varsTag, varsLaunch>>

-----------------------------------------------------------------------------
(* launch-cloud.go: launchCloud *)

EmptyString == <<>>
Alias_vm  == <<"v", "m">>
Alias_a_b == <<"a", " ", "b">>

\* What the flags can be given.
NameInputs  == {EmptyString, Alias_vm, Alias_a_b}
ArchInputs  == {"", "aarch64", "x86_64", "arm"}
MountInputs == {"", "/data", "/nope", "/etc/hosts"}
DiskFlagInputs == {<<"5", "G">>, <<"5", "T">>}
CPUInputs   == {<<"2">>, <<"a">>}
MemInputs   == {<<"2", "5", "5">>, <<"2", "5", "6">>, <<"-", "1", "0">>}
SSHInputs   == {<<"2", "2">>, <<"-", "1">>}
PortInputs  == {"", "8080", "x"}
HostArchs   == {"arm64", "amd64", "riscv64"}

\* utils.GenerateRandomAlias draws from these.
RandomAliases == {<<"g", "a", "b">>, <<"d", "e", "w">>}

\* What the engine and the clock can answer.
LaunchErrors == {"qemu exited", "image download failed"}
Timestamps == {"2026-01-02_03-04-05", "2026-01-02_03-04-06"}
ImageDefault == "alpine_3.20.3"

\* strings.ReplaceAll(s, old, new) for one-character old and new.
RECURSIVE ReplaceAll(_, _, _)
ReplaceAll(s, old, new) ==
    IF s = <<>> THEN <<>>
    ELSE <<IF Head(s) = old THEN new ELSE Head(s)>> \o ReplaceAll(Tail(s), old, new)

\* The log's new name (line 194).
LogName(alias, now) == ReplaceAll(alias, " ", "_") \o <<"_", now, ".log">>

Fatal(msg) ==
    /\ effects' = Append(effects, [op |-> "fatal", arg |-> msg])
    /\ exitCode' = 1
    /\ lpc' = "exit"

\* Lines 120-123.
Validate ==
    /\ lpc = "start"
    /\ \E cpu \in CPUInputs, mem \in MemInputs, ssh \in SSHInputs, port \in PortInputs :
          LET err == CorrectArgumentsCloud(ImageDefault, machineArchCloud, cpu, mem,
                                           machineDiskCloud, ssh, port)
          IN  IF err # "nil"
              THEN Fatal(err)
              ELSE lpc' = "validated" /\ UNCHANGED <<effects, exitCode>>
    /\ UNCHANGED <<varsFlags, varsHost, varsTag, varsDisk, machineArch, machineName,
                   machineMount, machineConfig, launchErr, name, pidLookup>>

\* Lines 130-141: the default lands in machineArch.
ResolveArch ==
    /\ lpc = "validated"
    /\ IF machineArch # ""
       THEN lpc' = "arched" /\ UNCHANGED <<machineArch, effects, exitCode>>
       ELSE IF GOARCH = "arm64"
       THEN lpc' = "arched" /\ machineArch' = "aarch64" /\ UNCHANGED <<effects, exitCode>>
       ELSE IF GOARCH = "amd64"
       THEN lpc' = "arched" /\ machineArch' = "x86_64" /\ UNCHANGED <<effects, exitCode>>
       ELSE Fatal("unsupported host architecture") /\ UNCHANGED machineArch
    /\ UNCHANGED <<varsFlags, varsHost, varsTag, varsDisk, machineName,
                   machineMount, machineConfig, launchErr, name, pidLookup>>

\* Lines 143-157: the alias is generated into, and checked on, machineName;
\* then the MAC address, whose generation can fail.
Identity ==
    /\ lpc = "arched"
    /\ LET vmList == hostVMs
       IN  IF machineName = EmptyString
           THEN \E alias \in RandomAliases \ vmList, macOK \in BOOLEAN :
                   /\ machineName' = alias
                   /\ IF macOK
                      THEN lpc' = "named" /\ UNCHANGED <<effects, exitCode>>
                      ELSE Fatal("mac address generation failed")
           ELSE IF machineName \in vmList
           THEN Fatal("instance with name already exists") /\ UNCHANGED machineName
           ELSE \E macOK \in BOOLEAN :
                   /\ UNCHANGED machineName
                   /\ IF macOK
                      THEN lpc' = "named" /\ UNCHANGED <<effects, exitCode>>
                      ELSE Fatal("mac address generation failed")
    /\ UNCHANGED <<varsFlags, varsHost, varsTag, varsDisk, machineArch,
                   machineMount, machineConfig, launchErr, name, pidLookup>>

\* Lines 161-164.
MachineTypeSwapped(arch) == IF arch = "aarch64" THEN "bios" ELSE "uefi"

MachineType(arch) == IF arch = "aarch64" THEN "uefi" ELSE "bios"

\* Lines 159-188: the record is built from the *Cloud flag variables.
Build ==
    /\ lpc = "named"
    /\ machineConfig' =
          [Alias |-> machineNameCloud,
           Image |-> <<ImageDefault, machineArchCloud, MachineType(machineArchCloud)>>,
           Arch |-> machineArchCloud,
           Disk |-> machineDiskCloud,
           Mount |-> machineMountCloud,
           Tags |-> <<>>,
           Location |-> machineNameCloud,
           machineType |-> MachineType(machineArchCloud)]
    /\ lpc' = "built"
    /\ UNCHANGED <<varsFlags, varsHost, varsTag, varsDisk, machineArch, machineName,
                   machineMount, launchErr, name, pidLookup, effects, exitCode>>

\* Line 190: host.Launch is entered.
LaunchCall ==
    /\ lpc = "built"
    /\ effects' = Append(effects, [op |-> "launch", arg |-> machineConfig.Alias])
    /\ lpc' = "launching"
    /\ UNCHANGED <<varsFlags, varsHost, varsTag, varsDisk, machineArch, machineName,
                   machineMount, machineConfig, launchErr, name, pidLookup, exitCode>>

\* The engine started the instance.
EngineStarted(alias) ==
    /\ hostVMs' = hostVMs \cup {alias}
    /\ dirs' = dirs \cup {alias}
    /\ logIn' = logIn \cup {alias}
    /\ running' = running \cup {alias}
    /\ atReturn' = [dirs |-> dirs', running |-> running']

\* The engine failed: it leaves a log file in the instance directory and
\* perhaps a process.
EngineFailed(alias, spawned) ==
    /\ hostVMs' = hostVMs
    /\ dirs' = dirs \cup {alias}
    /\ logIn' = logIn \cup {alias}
    /\ running' = IF spawned THEN running \cup {alias} ELSE running
    /\ atReturn' = [dirs |-> dirs', running |-> running']

\* Lines 190-191: host.Launch returned nil.
LaunchOK ==
    /\ lpc = "launching"
    /\ EngineStarted(machineConfig.Alias)
    /\ launchErr' = "nil"
    /\ lpc' = "launched"
    /\ UNCHANGED <<varsFlags, varsTag, varsDisk, machineArch, machineName, machineMount,
                   machineConfig, name, pidLookup, effects, exitCode, errDir, errorLogs>>

\* Lines 190-191: host.Launch returned an error.
LaunchFail(cause, spawned) ==
    /\ lpc = "launching"
    /\ EngineFailed(machineConfig.Alias, spawned)
    /\ launchErr' = cause
    /\ lpc' = "failed"
    /\ UNCHANGED <<varsFlags, varsTag, varsDisk, machineArch, machineName, machineMount,
                   machineConfig, name, pidLookup, effects, exitCode, errDir, errorLogs>>

\* Lines 209-210.
Report ==
    /\ lpc = "launched"
    /\ effects' = Append(effects, [op |-> "println launched", arg |-> machineNameCloud])
    /\ exitCode' = 0
    /\ lpc' = "exit"
    /\ UNCHANGED <<varsFlags, varsHost, varsTag, varsDisk, machineArch, machineName,
                   machineMount, machineConfig, launchErr, name, pidLookup>>

\* Line 193: os.MkdirAll of the error-log directory.
MkErrDir ==
    /\ lpc = "failed"
    /\ errDir' = TRUE
    /\ effects' = Append(effects, [op |-> "mkdir", arg |-> ".error-logs"])
    /\ lpc' = "r_move"
    /\ UNCHANGED <<varsFlags, varsTag, varsDisk, machineArch, machineName, machineMount,
                   machineConfig, launchErr, name, pidLookup, exitCode,
                   hostVMs, dirs, logIn, running, errorLogs, atReturn>>

\* Lines 194-195: the name is made and the log renamed into the directory
\* (os.Rename moves nothing when there is no log to move).
MoveLog(now) ==
    /\ lpc = "r_move"
    /\ name' = LogName(machineConfig.Alias, now)
    /\ IF machineConfig.Location \in logIn /\ errDir
       THEN /\ logIn' = logIn \ {machineConfig.Location}
            /\ errorLogs' = errorLogs \cup {name'}
       ELSE UNCHANGED <<logIn, errorLogs>>
    /\ effects' = Append(effects, [op |-> "rename", arg |-> name'])
    /\ lpc' = "r_printlog"
    /\ UNCHANGED <<varsFlags, varsTag, varsDisk, machineArch, machineName, machineMount,
                   machineConfig, launchErr, pidLookup, exitCode,
                   hostVMs, dirs, running, errDir, atReturn>>

\* Line 196.
PrintLogPath ==
    /\ lpc = "r_printlog"
    /\ effects' = Append(effects, [op |-> "println logs are in", arg |-> name])
    /\ lpc' = "r_cleanup"
    /\ UNCHANGED <<varsFlags, varsHost, varsTag, varsDisk, machineArch, machineName,
                   machineMount, machineConfig, launchErr, name, pidLookup, exitCode>>

\* Lines 197-198.
PrintCleanup ==
    /\ lpc = "r_cleanup"
    /\ effects' = Append(effects, [op |-> "println rm -rf", arg |-> machineConfig.Alias])
    /\ lpc' = "r_pid"
    /\ UNCHANGED <<varsFlags, varsHost, varsTag, varsDisk, machineArch, machineName,
                   machineMount, machineConfig, launchErr, name, pidLookup, exitCode>>

\* machineConfig.GetInstancePID: the process's identifier, or an error and
\* no usable identifier when the instance has no process.
InstancePID(alias) ==
    IF alias \in running
    THEN {[pid |-> 4242, err |-> "nil"]}
    ELSE {[pid |-> p, err |-> "no pid"] : p \in {0, -1}}

\* What the host's directories and processes are after lines 199-205, had
\* the removal and the SIGKILL of lines 202-205 not been commented out.
AfterKillHintCleaningUp(d, r, cfg) ==
    [dirs |-> d \ {cfg.Location}, running |-> r \ {cfg.Alias}]

\* What the host's directories and processes are after lines 199-205.
AfterKillHint(d, r, cfg) == [dirs |-> d, running |-> r]

\* Lines 199-200: the error of the lookup is dropped and the line printed.
KillHint ==
    /\ lpc = "r_pid"
    /\ \E got \in InstancePID(machineConfig.Alias) :
          /\ pidLookup' = got
          /\ effects' = Append(effects, [op |-> "println kill", arg |-> got.pid])
    /\ dirs' = AfterKillHint(dirs, running, machineConfig).dirs
    /\ running' = AfterKillHint(dirs, running, machineConfig).running
    /\ lpc' = "r_fatal"
    /\ UNCHANGED <<varsFlags, varsTag, varsDisk, machineArch, machineName, machineMount,
                   machineConfig, launchErr, name, exitCode,
                   hostVMs, logIn, errDir, errorLogs, atReturn>>

\* Where line 206 would leave the command if it only logged the error.
AfterFatalFallThrough(cause) ==
    [effects |-> effects \o <<[op |-> "log", arg |-> cause],
                              [op |-> "println launched", arg |-> machineNameCloud]>>,
     exitCode |-> 0]

\* Where line 206, log.Fatal(err), leaves the command.
AfterFatal(cause) ==
    [effects |-> Append(effects, [op |-> "fatal", arg |-> cause]), exitCode |-> 1]

\* Line 206.
FatalLaunch ==
    /\ lpc = "r_fatal"
    /\ effects' = AfterFatal(launchErr).effects
    /\ exitCode' = AfterFatal(launchErr).exitCode
    /\ lpc' = "exit"
    /\ UNCHANGED <<varsFlags, varsHost, varsTag, varsDisk, machineArch, machineName,
                   machineMount, machineConfig, launchErr, name, pidLookup>>

InitTagLocals ==
    /\ tpc = [e \in Editors |-> "idle"]
    /\ tags = [e \in Editors |-> <<>>]
    /\ targs = [e \in Editors |-> <<>>]
    /\ tremove = [e \in Editors |-> FALSE]
    /\ tloaded = [e \in Editors |-> <<>>]

\* The hosts a launch can find: the instances there, each with its
\* directory and log, some of them running.
HostStates == {{}, {Alias_vm}, {Alias_vm, Alias_a_b}}

InitCmd ==
    /\ lpc = "start"
    /\ machineArch = ""
    /\ machineName = EmptyString
    /\ machineMount = ""
    /\ machineConfig = "none"
    /\ launchErr = "none"
    /\ name = "none"
    /\ pidLookup = "none"
    /\ effects = <<>>
    /\ exitCode = -1
    /\ errDir \in BOOLEAN
    /\ errorLogs = {}
    /\ atReturn = "none"

InitLaunchIdle ==
    /\ machineArchCloud = ""
    /\ machineNameCloud = EmptyString
    /\ machineMountCloud = ""
    /\ machineDiskCloud = <<"5", "G">>
    /\ GOARCH = "arm64"
    /\ hostVMs = {}
    /\ dirs = {EmptyString}
    /\ logIn = {}
    /\ running = {}
    /\ InitCmd
    /\ errDir = FALSE

InitLaunch ==
    /\ machineArchCloud \in ArchInputs
    /\ machineNameCloud \in NameInputs
    /\ machineMountCloud \in MountInputs
    /\ machineDiskCloud \in DiskFlagInputs
    /\ GOARCH \in HostArchs
    /\ hostVMs \in HostStates
    /\ dirs = hostVMs \cup {EmptyString}
    /\ logIn = hostVMs
    /\ running \in SUBSET hostVMs
    /\ InitCmd
    /\ file = <<>>
    /\ InitTagLocals
    /\ diskIn = <<>>
    /\ diskOut = [err |-> "none", int |-> 0, l |-> <<>>]

NextLaunch ==
    \/ Validate
    \/ ResolveArch
    \/ Identity
    \/ Build
    \/ LaunchCall
    \/ LaunchOK
    \/ \E cause \in LaunchErrors, spawned \in BOOLEAN : LaunchFail(cause, spawned)
    \/ Report
    \/ MkErrDir
    \/ \E now \in Timestamps : MoveLog(now)
    \/ PrintLogPath
    \/ PrintCleanup
    \/ KillHint
    \/ FatalLaunch

SpecLaunch == InitLaunch /\ [][NextLaunch]_vars

InitDiskIdle ==
    /\ diskIn = <<>>
    /\ diskOut = [err |-> "none", int |-> 0, l |-> <<>>]

InitDisk ==
    /\ diskIn \in DiskInputs
    /\ diskOut = [err |-> "none", int |-> 0, l |-> <<>>]
    /\ file = <<>>
    /\ InitTagLocals
    /\ InitLaunchIdle

NextDisk == ValidateDisk

SpecDisk == InitDisk /\ [][NextDisk]_vars

\* A fresh instance (Tags: []string{}) edited by one invocation after another.
InitTag == file = <<>> /\ InitTagLocals /\ InitDiskIdle /\ InitLaunchIdle

NextTag == \E a \in ArgLists, rm \in BOOLEAN : macpineTag("e1", a, rm)

SpecTag == InitTag /\ [][NextTag]_vars

\* Two invocations against one alias, each run once, over a config file
\* that earlier invocations left sorted and duplicate-free.
InitRace == file \in SortedTagSets /\ InitTagLocals /\ InitDiskIdle /\ InitLaunchIdle

NextRace ==
    \/ \E e \in Editors, a \in ArgLists, rm \in BOOLEAN : Load(e, a, rm)
    \/ \E e \in Editors : Save(e)

SpecRace == InitRace /\ [][NextRace]_vars

-----------------------------------------------------------------------------
(* Properties of the tag command *)

\* C1: after any sequence of `tag` add and remove invocations on a fresh
\* instance, the persisted tag sequence is strictly ascending in Go's
\* string order and holds no label twice.
C1_TagsSortedUnique == StrictlyAscending(file) /\ NoDuplicates(file)

\* C1's case: labels added out of order around one already there.
C1_Witness ==
    /\ tpc["e1"] = "done"
    /\ ~tremove["e1"]
    /\ targs["e1"] = <<Label_web, Label_d>>
    /\ tloaded["e1"] = <<Label_db>>
    /\ file = <<Label_d, Label_db, Label_web>>

Without(s, l) == LET Keep(x) == x # l IN SelectSeq(s, Keep)

\* C2: a `tag --remove` of one label leaves the sequence as it was when the
\* label is absent; when it is present the result is one element shorter,
\* holds every other element in the same order, still sorted, and no longer
\* holds the label.
C2_RemoveOne ==
    (tpc["e1"] = "done" /\ tremove["e1"] /\ Len(targs["e1"]) = 1) =>
        LET l == targs["e1"][1]
            before == tloaded["e1"]
        IN  /\ l \notin Range(before) => file = before
            /\ l \in Range(before) =>
                  /\ Len(file) = Len(before) - 1
                  /\ file = Without(before, l)
                  /\ l \notin Range(file)
                  /\ StrictlyAscending(file)

\* C2's case: a present label removed from the middle of three.
C2_Witness ==
    /\ tpc["e1"] = "done"
    /\ tremove["e1"]
    /\ targs["e1"] = <<Label_db>>
    /\ tloaded["e1"] = <<Label_d, Label_db, Label_web>>
    /\ file = <<Label_d, Label_web>>

\* C10: two invocations against one alias take no lock, so both can hold
\* edited tags at once; whatever the interleaving, each sequence an
\* invocation writes is sorted and duplicate-free, and once both have
\* written the file holds the sequence of one of them.
C10_EachWriteSorted ==
    /\ \A e \in Editors :
          tpc[e] \in {"edited", "done"} =>
              StrictlyAscending(tags[e]) /\ NoDuplicates(tags[e])
    /\ (\A e \in Editors : tpc[e] = "done") => \E e \in Editors : file = tags[e]

\* C10's case, a lost update: both invocations added a label to the empty
\* set they both read, both succeeded, and the file lacks the label of e1.
C10_Witness ==
    /\ \A e \in Editors : tpc[e] = "done" /\ ~tremove[e] /\ tloaded[e] = <<>>
    /\ targs["e1"] = <<Label_d>>
    /\ targs["e2"] = <<Label_web>>
    /\ Label_d \notin Range(file)
    /\ file = <<Label_web>>

-----------------------------------------------------------------------------
(* Properties of the disk-size validation *)

ClaimDigits == {"0", "1", "2", "3", "4", "5", "6", "7", "8", "9"}
ClaimUppers == {"A", "B", "C", "D", "E", "F", "G", "H", "I", "J", "K", "L", "M",
                "N", "O", "P", "Q", "R", "S", "T", "U", "V", "W", "X", "Y", "Z"}
DigitsOf(s) == LET D(c) == c \in ClaimDigits IN SelectSeq(s, D)
UppersOf(s) == LET U(c) == c \in ClaimUppers IN SelectSeq(s, U)

\* C5: a disk size is accepted exactly when its digits, in order, are a
\* non-empty string and its upper-case letters, in order, are "", "K", "M"
\* or "G", whatever else it holds; "5G", "G5" and "05G" are accepted with
\* magnitude 5 and suffix "G", "5T" and "G" are rejected.
C5_DiskAccepted ==
    diskOut.err # "none" =>
        /\ diskOut.err = "nil" <=>
              (DigitsOf(diskIn) # <<>> /\ UppersOf(diskIn) \in {<<>>, <<"K">>, <<"M">>, <<"G">>})
        /\ diskOut.err = "nil" => diskOut.l = UppersOf(diskIn)
        /\ diskIn \in {<<"5", "G">>, <<"G", "5">>, <<"0", "5", "G">>} =>
              diskOut = [err |-> "nil", int |-> 5, l |-> <<"G">>]
        /\ diskIn \in {<<"5", "T">>, <<"G">>} => diskOut.err # "nil"

\* C5's case: "G5" was validated.
C5_Witness ==
    /\ diskIn = <<"G", "5">>
    /\ diskOut = [err |-> "nil", int |-> 5, l |-> <<"G">>]

-----------------------------------------------------------------------------
(* Properties of launch-cloud *)

Ops(es) == [i \in 1..Len(es) |-> es[i].op]
IsPrefix(s, t) == Len(s) <= Len(t) /\ s = SubSeq(t, 1, Len(s))
Launched == \E i \in 1..Len(effects) : effects[i].op = "launch"
LaunchFailed == lpc \in {"failed", "r_move", "r_printlog", "r_cleanup", "r_pid", "r_fatal"}
                  \/ (lpc = "exit" /\ Launched /\ launchErr \notin {"nil", "none"})

\* C3: a launch whose --name is an alias of the live instance list never
\* reaches the engine, and an alias written into the configuration is never
\* one the host already has.
C3_NameCollisionStopsLaunch ==
    /\ (lpc = "launching" /\ machineNameCloud # EmptyString) => machineNameCloud \notin hostVMs
    /\ lpc \in {"built", "launching"} => machineConfig.Alias \notin hostVMs

Underscored(alias) == [i \in 1..Len(alias) |-> IF alias[i] = " " THEN "_" ELSE alias[i]]

\* C4: when the start fails the command ends with the instance directory
\* still there, the host's directories and processes as they were when the
\* start returned, a non-zero exit status, and the log moved out of the
\* instance directory into the error-log directory under the name
\* <alias with spaces as underscores>_<timestamp>.log.
C4_FailureLeavesInstance ==
    (lpc = "exit" /\ LaunchFailed) =>
        /\ machineConfig.Location \in dirs
        /\ dirs = atReturn.dirs
        /\ running = atReturn.running
        /\ exitCode # 0
        /\ \E now \in Timestamps : name = Underscored(machineConfig.Alias) \o <<"_", now, ".log">>
        /\ name \in errorLogs
        /\ machineConfig.Location \notin logIn

\* C4's case: the start of "a b" failed with a process left running; the
\* command has ended.
C4_Witness ==
    /\ lpc = "exit"
    /\ LaunchFailed
    /\ machineNameCloud = Alias_a_b
    /\ Alias_a_b \in running
    /\ Alias_a_b \in dirs
    /\ name = <<"a", "_", "b", "_", "2026-01-02_03-04-05", ".log">>
    /\ name \in errorLogs

\* C6: a launch whose --mount is non-empty and is no existing directory
\* never reaches the engine: a configuration handed to it has an empty
\* mount path or one that names an existing directory.
C6_BadMountStopsLaunch ==
    lpc = "launching" =>
        (machineConfig.Mount = "" \/ machineConfig.Mount \in HostDirs)

\* C7: the configuration handed to the engine has architecture "aarch64" or
\* "x86_64", the host's when --arch is empty, and the firmware mode of its
\* image is "uefi" exactly when that architecture is "aarch64".
C7_ArchOfConfig ==
    lpc = "launching" =>
        /\ machineConfig.Arch \in {"aarch64", "x86_64"}
        /\ machineArchCloud = "" =>
              machineConfig.Arch = (IF GOARCH = "arm64" THEN "aarch64" ELSE "x86_64")
        /\ machineConfig.machineType = "uefi" <=> machineConfig.Arch = "aarch64"

SuccessOps == <<"launch", "println launched">>
RecoveryOps == <<"launch", "mkdir", "rename", "println logs are in",
                 "println rm -rf", "println kill", "fatal">>

Phase ==
    IF lpc \in {"start", "validated", "arched", "named", "built"} THEN "Idle"
    ELSE IF lpc = "launching" THEN "Launching"
    ELSE IF lpc = "launched" THEN "Launched"
    ELSE IF LaunchFailed THEN "FailedWithRecovery"
    ELSE IF Launched THEN "Launched"
    ELSE "Rejected"

PhaseSteps == {<<"Idle", "Rejected">>, <<"Idle", "Launching">>,
               <<"Launching", "Launched">>, <<"Launching", "FailedWithRecovery">>}

\* C8: a launch enters the engine at most once and goes Idle -> Launching
\* -> Launched or FailedWithRecovery; a successful one reports the alias and
\* does nothing of the recovery; a failed one makes the error-log
\* directory, moves the log, prints its new path, the cleanup command and
\* the kill line, and ends with the engine's error, in that order.
C8_LaunchOnceThenRecover ==
    /\ [](/\ Cardinality({i \in 1..Len(effects) : effects[i].op = "launch"}) <= 1
          /\ Launched => IsPrefix(Ops(effects), SuccessOps) \/ IsPrefix(Ops(effects), RecoveryOps)
          /\ (lpc = "exit" /\ Launched /\ launchErr = "nil") =>
                /\ Ops(effects) = SuccessOps
                /\ effects[2].arg = machineConfig.Alias
                /\ exitCode = 0
          /\ (lpc = "exit" /\ LaunchFailed) =>
                /\ Ops(effects) = RecoveryOps
                /\ effects[7].arg = launchErr
                /\ effects[4].arg = name
                /\ exitCode = 1)
    /\ [][Phase' # Phase => <<Phase, Phase'>> \in PhaseSteps]_vars

\* C8's case: a failed launch has gone through the whole recovery.
C8_Witness ==
    /\ lpc = "exit"
    /\ LaunchFailed
    /\ Ops(effects) = RecoveryOps
    /\ launchErr = "qemu exited"

\* C9: the kill line is printed only when the lookup of the process's
\* identifier succeeded, and then with that identifier.
C9_KillLineOnlyIfFound ==
    \A i \in 1..Len(effects) :
        effects[i].op = "println kill" =>
            pidLookup.err = "nil" /\ effects[i].arg = pidLookup.pid

=============================================================================
